---- MODULE Spec2Model ----
(***************************************************************************)
(* A model of zoomer's 2D camera (src/camera.rs) and of the temporal       *)
(* interpolation engine it is built on (src/interpolation), and of the     *)
(* integer helper round_up_to_power_of_2 (src/screenshot.rs), and of the   *)
(* event handlers of the Zoomer window (src/zoomer.rs).                    *)
(*                                                                         *)
(* Numbers.  The program computes in f32.  The model computes in exact     *)
(* rational arithmetic: a number is a pair <<n, d>> in lowest terms with   *)
(* d > 0.  Rounding, infinities and NaN are not modelled; every input the  *)
(* model draws is a finite number.  powf is modelled on the exponents for  *)
(* which its value is rational (see PowInvTen).                            *)
(***************************************************************************)
EXTENDS Integers, Sequences, FiniteSets, TLC

VARIABLES
    camera,     \* the Camera object (src/camera.rs:8-16), or the record before Camera::new's first call
    panicked,   \* TRUE once a call has panicked (the process aborts)
    last,       \* history: the last Camera operation, its arguments and the camera before it
    steps,      \* history: number of Camera operations so far
    elapsed,    \* history: the time passed to Camera::update so far, in seconds
    var,        \* an InterpolatedVector / InterpolatedScalar on its own (src/interpolation/mod.rs:11-15)
    vlast,      \* history: the last operation on var, its arguments, var before it, the
                \* time passed to update in total and since the target was last set,
                \* the operation before it and the value var was constructed with
    vsteps,     \* history: number of operations on var so far
    round,      \* a call of round_up_to_power_of_2 (src/screenshot.rs:157-164): its
                \* integer type, arguments, build profile and, once made, its outcome
    zoomer,     \* the Zoomer object (src/zoomer.rs:80-112) with the effects its
                \* handlers have on the desktop capture and the GPU texture
    zlast,      \* history: the last Zoomer event, its arguments, the Zoomer before
                \* it, the drag under way and the time passed to update so far
    zsteps      \* history: number of Zoomer events after init so far

vars == <<camera, panicked, last, steps, elapsed, var, vlast, vsteps, round,
          zoomer, zlast, zsteps>>

camVars == <<camera, panicked, last, steps, elapsed>>

varVars == <<var, vlast, vsteps>>

roundVars == <<round>>

zoomerVars == <<zoomer, zlast, zsteps>>

----------------------------------------------------------------------------
(* Exact rational arithmetic standing for f32 arithmetic.                  *)

Abs(x) == IF x < 0 THEN -x ELSE x

RECURSIVE GCD(_, _)
GCD(a, b) == IF b = 0 THEN a ELSE GCD(b, a % b)

\* The rational n/d in lowest terms, d > 0.
Rat(n, d) ==
    LET s == IF d < 0 THEN -1 ELSE 1
        g == GCD(Abs(n), Abs(d))
    IN  <<(s * n) \div g, (s * d) \div g>>

I(n) == <<n, 1>>

Zero == I(0)

One == I(1)

RNeg(a) == <<-a[1], a[2]>>

RAdd(a, b) ==
    LET g == GCD(a[2], b[2])
        fa == b[2] \div g
        fb == a[2] \div g
    IN  IF a[1] = 0 THEN b
        ELSE IF b[1] = 0 THEN a
        ELSE IF a[2] = 1 /\ b[2] = 1 THEN <<a[1] + b[1], 1>>
        ELSE Rat(a[1] * fa + b[1] * fb, a[2] * fa)

RSub(a, b) == RAdd(a, RNeg(b))

RMul(a, b) ==
    LET g1 == GCD(Abs(a[1]), b[2])
        g2 == GCD(Abs(b[1]), a[2])
    IN  IF a[1] = 0 \/ b[1] = 0 THEN Zero
        ELSE IF a = One THEN b
        ELSE IF b = One THEN a
        ELSE <<(a[1] \div g1) * (b[1] \div g2), (a[2] \div g2) * (b[2] \div g1)>>

\* b is never zero where the model divides.
RDiv(a, b) == RMul(a, IF b[1] < 0 THEN <<-b[2], -b[1]>> ELSE <<b[2], b[1]>>)

\* The sign of a - b: the numerators over the common denominator.
RCmp(a, b) ==
    LET g == GCD(a[2], b[2])
    IN  a[1] * (b[2] \div g) - b[1] * (a[2] \div g)

RLt(a, b) == IF a[2] = b[2] THEN a[1] < b[1] ELSE RCmp(a, b) < 0

RLe(a, b) == IF a[2] = b[2] THEN a[1] <= b[1] ELSE RCmp(a, b) <= 0

RAbs(a) == <<Abs(a[1]), a[2]>>

RSign(a) == IF a[1] < 0 THEN -1 ELSE IF a[1] > 0 THEN 1 ELSE 0

IsInteger(a) == a[2] = 1

RECURSIVE TenTo(_)
TenTo(n) == IF n = 0 THEN 1 ELSE 10 * TenTo(n - 1)

\* (1 / 10^rate).powf(e), which is 1 / 10^(rate * e); the model evaluates it
\* where rate * e is an integer, the exponents on which it is rational.
PowInvTen(rate, e) ==
    LET x == RMul(rate, e)[1]
    IN  IF x >= 0 THEN Rat(1, TenTo(x)) ELSE I(TenTo(-x))

PowInvTenDefined(rate, e) == IsInteger(RMul(rate, e))

----------------------------------------------------------------------------
(* Vectors (nalgebra TVec<T, R>): sequences of R numbers.                  *)

VAdd(u, v) == [i \in DOMAIN u |-> RAdd(u[i], v[i])]

VSub(u, v) == [i \in DOMAIN u |-> RSub(u[i], v[i])]

VNeg(u) == [i \in DOMAIN u |-> RNeg(u[i])]

VScale(u, s) == [i \in DOMAIN u |-> RMul(u[i], s)]

VDivS(u, s) == [i \in DOMAIN u |-> RDiv(u[i], s)]

VZeros(R) == [i \in 1..R |-> Zero]

vec1(x) == <<x>>

vec2(x, y) == <<x, y>>

\* glm::lerp(x, y, a) = x * (1 - a) + y * a
lerp(x, y, a) == VAdd(VScale(x, RSub(One, a)), VScale(y, a))

\* nalgebra's clamp(val, min, max)
na_clamp(val, min, max) ==
    IF RLt(min, val) THEN (IF RLt(val, max) THEN val ELSE max) ELSE min

\* glm::clamp_vec: component-wise na::clamp
clamp_vec(x, min_val, max_val) ==
    [i \in DOMAIN x |-> na_clamp(x[i], min_val[i], max_val[i])]

\* Mutant of f32_clamp: only the upper bound is applied.
f32_clamp_upper_only(x, min, max) == IF RLt(max, x) THEN max ELSE x

\* f32::clamp(self, min, max), for min <= max (it panics otherwise)
f32_clamp(x, min, max) ==
    LET x1 == IF RLt(x, min) THEN min ELSE x
    IN  IF RLt(max, x1) THEN max ELSE x1

f32_clamp_panics(min, max) == ~RLe(min, max)

----------------------------------------------------------------------------
(* Interpolators (src/interpolation/interpolators.rs).                     *)

ExponentialSmoothing_new(length_sec, exp_rate) ==
    [kind |-> "ExponentialSmoothing", length_sec |-> length_sec, exp_rate |-> exp_rate]

LinearInterpolation_new(length_sec) ==
    [kind |-> "LinearInterpolation", k |-> RDiv(One, length_sec), time |-> Zero]

\* Mutant of ExponentialSmoothing_interpolate: the factor is not taken from 1.
ExponentialSmoothing_interpolate_no_complement(self, current, target, dt) ==
    lerp(current, target, PowInvTen(self.exp_rate, RDiv(dt, self.length_sec)))

\* Mutant of ExponentialSmoothing_interpolate: the base 10^exp_rate is not inverted.
ExponentialSmoothing_interpolate_not_inverted(self, current, target, dt) ==
    lerp(current, target,
         RSub(One, PowInvTen(self.exp_rate, RNeg(RDiv(dt, self.length_sec)))))

\* Mutant of ExponentialSmoothing_interpolate: the factor is dt / length_sec.
ExponentialSmoothing_interpolate_per_frame(self, current, target, dt) ==
    lerp(current, target, RDiv(dt, self.length_sec))

\* Mutant of ExponentialSmoothing_interpolate: the power is added to 1.
ExponentialSmoothing_interpolate_sign_flipped(self, current, target, dt) ==
    lerp(current, target,
         RAdd(One, PowInvTen(self.exp_rate, RDiv(dt, self.length_sec))))

\* ExponentialSmoothing::interpolate; it does not change the interpolator.
ExponentialSmoothing_interpolate(self, current, target, dt) ==
    lerp(current, target,
         RSub(One, PowInvTen(self.exp_rate, RDiv(dt, self.length_sec))))

\* Mutant of LinearInterpolation_advance: the time stops at length_sec.
LinearInterpolation_advance_clamped(self, dt) ==
    [self EXCEPT !.time = IF RLt(RDiv(One, self.k), RAdd(@, dt))
                          THEN RDiv(One, self.k) ELSE RAdd(@, dt)]

\* LinearInterpolation::interpolate, first statement: self.time += dt
LinearInterpolation_advance(self, dt) == [self EXCEPT !.time = RAdd(@, dt)]

\* Mutant of LinearInterpolation_interpolate: the value is computed before
\* the time is advanced.
LinearInterpolation_interpolate_stale_time(self, current, target, dt) ==
    lerp(current, target, RMul(self.k, self.time))

\* LinearInterpolation::interpolate, the value returned (time already advanced)
LinearInterpolation_interpolate(self, current, target, dt) ==
    lerp(current, target, RMul(self.k, LinearInterpolation_advance(self, dt).time))

\* Interpolator::interpolate by dynamic kind: the interpolator after the call
Interpolator_after(self, dt) ==
    IF self.kind = "LinearInterpolation" THEN LinearInterpolation_advance(self, dt)
    ELSE self

\* Interpolator::interpolate by dynamic kind: the value returned
Interpolator_interpolate(self, current, target, dt) ==
    IF self.kind = "LinearInterpolation"
    THEN LinearInterpolation_interpolate(self, current, target, dt)
    ELSE ExponentialSmoothing_interpolate(self, current, target, dt)

\* Whether the model can evaluate an update by dt (see PowInvTen).
Interpolator_defined(self, dt) ==
    self.kind = "ExponentialSmoothing" =>
        PowInvTenDefined(self.exp_rate, RDiv(dt, self.length_sec))

----------------------------------------------------------------------------
(* InterpolatedVector and InterpolatedScalar (src/interpolation/mod.rs).   *)

InterpolatedVector_new(initial, interpolator) ==
    [current |-> initial, target |-> initial, interpolator |-> interpolator]

InterpolatedVector_new_zeroed(R, interpolator) ==
    InterpolatedVector_new(VZeros(R), interpolator)

\* Mutant of InterpolatedVector_set_target: current snaps to the new target.
InterpolatedVector_set_target_snapping(self, target) ==
    [self EXCEPT !.target = target, !.current = target]

InterpolatedVector_set_target(self, target) == [self EXCEPT !.target = target]

InterpolatedVector_update(self, dt) ==
    [self EXCEPT
        !.current = Interpolator_interpolate(self.interpolator, self.current, self.target, dt),
        !.interpolator = Interpolator_after(self.interpolator, dt)]

InterpolatedVector_current(self) == self.current

InterpolatedVector_target(self) == self.target

\* InterpolatedScalar is InterpolatedVector<T, 1, I>
InterpolatedScalar_new(initial, interpolator) ==
    InterpolatedVector_new(vec1(initial), interpolator)

InterpolatedScalar_set_target(self, target) ==
    InterpolatedVector_set_target(self, vec1(target))

InterpolatedScalar_update(self, dt) == InterpolatedVector_update(self, dt)

InterpolatedScalar_current(self) == InterpolatedVector_current(self)[1]

InterpolatedScalar_target(self) == InterpolatedVector_target(self)[1]

----------------------------------------------------------------------------
(* Camera (src/camera.rs).                                                 *)

\* const LENGTH: f32 = 0.5
LENGTH == Rat(1, 2)

\* const RATE: f32 = 2.5
RATE == Rat(5, 2)

\* Mutant of Camera_new: the initial zoom is clamped into zoom_range.
Camera_new_clamped(zoom_range, position_range) ==
    [position |-> InterpolatedVector_new_zeroed(2, ExponentialSmoothing_new(LENGTH, RATE)),
     zoom_factor |-> InterpolatedScalar_new(f32_clamp(One, zoom_range[1], zoom_range[2]),
                                            ExponentialSmoothing_new(LENGTH, RATE)),
     zoom_range |-> zoom_range,
     position_range |-> position_range]

Camera_new(zoom_range, position_range) ==
    [position |-> InterpolatedVector_new_zeroed(2, ExponentialSmoothing_new(LENGTH, RATE)),
     zoom_factor |-> InterpolatedScalar_new(One, ExponentialSmoothing_new(LENGTH, RATE)),
     zoom_range |-> zoom_range,
     position_range |-> position_range]

\* Mutant of Camera_translate: the new target is clamped into the position bound.
Camera_translate_clamping(self, translation) ==
    LET bound == VScale(self.position_range, InterpolatedScalar_current(self.zoom_factor))
    IN  [self EXCEPT !.position =
            InterpolatedVector_set_target(@,
                clamp_vec(VAdd(InterpolatedVector_target(@), translation), VNeg(bound), bound))]

Camera_translate(self, translation) ==
    [self EXCEPT !.position =
        InterpolatedVector_set_target(@, VAdd(InterpolatedVector_target(@), translation))]

\* Mutant of Camera_world_to_camera_space: scales by the target zoom.
Camera_world_to_camera_space_by_target(self, world_coords) ==
    VScale(world_coords, InterpolatedScalar_target(self.zoom_factor))

Camera_world_to_camera_space(self, world_coords) ==
    VScale(world_coords, InterpolatedScalar_current(self.zoom_factor))

\* Mutant of Camera_clamp_me_daddy: the bounds are passed in the wrong order.
Camera_clamp_me_daddy_swapped(self) ==
    LET camera_position_range == Camera_world_to_camera_space(self, self.position_range)
    IN  [self EXCEPT !.position =
            InterpolatedVector_set_target(@,
                clamp_vec(InterpolatedVector_target(@),
                          camera_position_range, VNeg(camera_position_range)))]

\* Mutant of Camera_clamp_me_daddy: the current position is clamped as well.
Camera_clamp_me_daddy_current(self) ==
    LET camera_position_range == Camera_world_to_camera_space(self, self.position_range)
        clamped == clamp_vec(InterpolatedVector_target(self.position),
                             VNeg(camera_position_range), camera_position_range)
    IN  [self EXCEPT !.position = [@ EXCEPT !.target = clamped, !.current = clamped]]

Camera_clamp_me_daddy(self) ==
    LET camera_position_range == Camera_world_to_camera_space(self, self.position_range)
    IN  [self EXCEPT !.position =
            InterpolatedVector_set_target(@,
                clamp_vec(InterpolatedVector_target(@),
                          VNeg(camera_position_range), camera_position_range))]

\* Mutant of Camera_zoom_panics: zoom also panics when zoom_range does not
\* hold the initial zoom 1.0.
Camera_zoom_panics_unless_one_in_range(self) ==
    ~(RLe(self.zoom_range[1], One) /\ RLe(One, self.zoom_range[2]))

\* Camera::zoom panics in f32::clamp when zoom_range is empty
Camera_zoom_panics(self) == f32_clamp_panics(self.zoom_range[1], self.zoom_range[2])

\* Mutant of Camera_zoom: the new zoom factor is not clamped into zoom_range.
Camera_zoom_unclamped(self, zoom_multiplier, screen_point) ==
    LET new_zoom_factor == RMul(InterpolatedScalar_target(self.zoom_factor), zoom_multiplier)
        self2 == [self EXCEPT !.zoom_factor =
                     InterpolatedScalar_set_target(@, new_zoom_factor)]
        point == VSub(screen_point, InterpolatedVector_target(self2.position))
    IN  Camera_translate(self2, VSub(point, VScale(point, zoom_multiplier)))

\* Mutant of Camera_zoom: the translation uses the requested multiplier, not
\* the one recomputed after the clamp.
Camera_zoom_requested_multiplier(self, zoom_multiplier, screen_point) ==
    LET new_zoom_factor ==
            f32_clamp(RMul(InterpolatedScalar_target(self.zoom_factor), zoom_multiplier),
                      self.zoom_range[1], self.zoom_range[2])
        self2 == [self EXCEPT !.zoom_factor =
                     InterpolatedScalar_set_target(@, new_zoom_factor)]
        point == VSub(screen_point, InterpolatedVector_target(self2.position))
    IN  Camera_translate(self2, VSub(point, VScale(point, zoom_multiplier)))

\* Mutant of Camera_zoom: the anchor is taken relative to the smoothed position.
Camera_zoom_about_current(self, zoom_multiplier, screen_point) ==
    LET new_zoom_factor == f32_clamp(RMul(InterpolatedScalar_target(self.zoom_factor),
                                          zoom_multiplier),
                                     self.zoom_range[1], self.zoom_range[2])
        zoom_multiplier2 == RDiv(new_zoom_factor, InterpolatedScalar_target(self.zoom_factor))
        self2 == [self EXCEPT !.zoom_factor =
                     InterpolatedScalar_set_target(@, new_zoom_factor)]
        point == VSub(screen_point, InterpolatedVector_current(self2.position))
    IN  Camera_translate(self2, VSub(point, VScale(point, zoom_multiplier2)))

\* Mutant of Camera_zoom: a multiplier that leaves zoom_range is rejected.
Camera_zoom_rejecting(self, zoom_multiplier, screen_point) ==
    LET requested == RMul(InterpolatedScalar_target(self.zoom_factor), zoom_multiplier)
        new_zoom_factor == f32_clamp(requested, self.zoom_range[1], self.zoom_range[2])
        self2 == [self EXCEPT !.zoom_factor =
                     InterpolatedScalar_set_target(@, new_zoom_factor)]
        point == VSub(screen_point, InterpolatedVector_target(self2.position))
    IN  IF new_zoom_factor # requested THEN self
        ELSE Camera_translate(self2, VSub(point, VScale(point, zoom_multiplier)))

Camera_zoom(self, zoom_multiplier, screen_point) ==
    LET new_zoom_factor ==
            f32_clamp(RMul(InterpolatedScalar_target(self.zoom_factor), zoom_multiplier),
                      self.zoom_range[1], self.zoom_range[2])
        zoom_multiplier2 == RDiv(new_zoom_factor, InterpolatedScalar_target(self.zoom_factor))
        self2 == [self EXCEPT !.zoom_factor =
                     InterpolatedScalar_set_target(@, new_zoom_factor)]
        point == VSub(screen_point, InterpolatedVector_target(self2.position))
    IN  Camera_translate(self2, VSub(point, VScale(point, zoom_multiplier2)))

Camera_update(self, dt) ==
    [self EXCEPT !.zoom_factor = InterpolatedScalar_update(@, dt),
                 !.position = InterpolatedVector_update(@, dt)]

Camera_screen_to_camera_space(self, screen_coords) ==
    VSub(screen_coords, InterpolatedVector_current(self.position))

\* Mutant of Camera_screen_to_world_space: divides by the target zoom.
Camera_screen_to_world_space_by_target(self, screen_coords) ==
    VDivS(Camera_screen_to_camera_space(self, screen_coords),
          InterpolatedScalar_target(self.zoom_factor))

Camera_screen_to_world_space(self, screen_coords) ==
    VDivS(Camera_screen_to_camera_space(self, screen_coords),
          InterpolatedScalar_current(self.zoom_factor))

\* glm::vec2_to_vec3: z = 0
vec2_to_vec3(v) == <<v[1], v[2], Zero>>

\* Mat4 values: a matrix m is a function of row and column, m[i][j].
Mat4_new_translation(v) ==
    [i \in 1..4 |-> [j \in 1..4 |->
        IF i = j THEN One ELSE IF j = 4 THEN v[i] ELSE Zero]]

Mat4_new_scaling(scaling) ==
    [i \in 1..4 |-> [j \in 1..4 |->
        IF i # j THEN Zero ELSE IF i = 4 THEN One ELSE scaling]]

Mat4_mul(a, b) ==
    [i \in 1..4 |-> [j \in 1..4 |->
        RAdd(RAdd(RMul(a[i][1], b[1][j]), RMul(a[i][2], b[2][j])),
             RAdd(RMul(a[i][3], b[3][j]), RMul(a[i][4], b[4][j])))]]

\* Mutant of Camera_to_homogenous: the factors are multiplied in the other order.
Camera_to_homogenous_scale_last(self) ==
    Mat4_mul(Mat4_new_scaling(InterpolatedScalar_current(self.zoom_factor)),
             Mat4_new_translation(vec2_to_vec3(InterpolatedVector_current(self.position))))

Camera_to_homogenous(self) ==
    Mat4_mul(Mat4_new_translation(vec2_to_vec3(InterpolatedVector_current(self.position))),
             Mat4_new_scaling(InterpolatedScalar_current(self.zoom_factor)))

Camera_camera_to_world_space(self, camera_coords) ==
    VDivS(camera_coords, InterpolatedScalar_current(self.zoom_factor))

Camera_position(self) ==
    Camera_camera_to_world_space(self, InterpolatedVector_current(self.position))

Camera_zoom_factor(self) == InterpolatedScalar_current(self.zoom_factor)

----------------------------------------------------------------------------
(* The camera as a state machine: Camera::new, then any sequence of        *)
(* translate, zoom, clamp_me_daddy and update calls.                       *)

\* Bound: number of Camera calls after Camera::new in a behaviour.
MaxSteps == 3

\* Bound: the time passed to Camera::update in a behaviour, in units of
\* LENGTH / RATE seconds (one unit divides the remaining error by 10).
MaxDecades == 4

\* The number of decades dt seconds of ExponentialSmoothing(length_sec, exp_rate) make.
Decades(length_sec, exp_rate, dt) == RMul(exp_rate, RDiv(dt, length_sec))

\* Constructor arguments: the application's 0.25..=500 (src/zoomer.rs:157), a
\* range that does not contain the initial zoom 1.0, and an empty range.
ZoomRanges == { <<Rat(1, 4), I(500)>>, <<I(2), I(4)>>, <<I(2), One>> }

PositionRanges == { vec2(One, Rat(1, 2)) }

Multipliers == { I(-1), Zero, Rat(1, 2), I(3) }

ScreenPoints == { vec2(Zero, Zero), vec2(One, Rat(-1, 2)) }

Translations == { vec2(Rat(1, 2), Zero), vec2(I(-2), I(3)) }

\* Frame times in seconds; RATE * dt / LENGTH is an integer for each.
Dts == { Zero, Rat(1, 5), Rat(2, 5) }

NoVec == <<>>

\* The history record of a call: the operation, the camera before it, its
\* arguments, the call before it, and the number of zoom calls so far.
Op(op, mult, vec, dt) ==
    [op |-> op, pre |-> camera, mult |-> mult, vec |-> vec, dt |-> dt,
     prev |-> [op |-> last.op, pre |-> last.pre, mult |-> last.mult, vec |-> last.vec],
     zooms |-> last.zooms + (IF op = "zoom" THEN 1 ELSE 0)]

VarIdle ==
    /\ var = InterpolatedVector_new(vec1(Zero), LinearInterpolation_new(One))
    /\ vlast = [op |-> "idle"]
    /\ vsteps = 0

CamInit ==
    /\ \E zr \in ZoomRanges, pr \in PositionRanges : camera = Camera_new(zr, pr)
    /\ panicked = FALSE
    /\ last = [op |-> "new", pre |-> camera, mult |-> Zero, vec |-> NoVec, dt |-> Zero,
               prev |-> [op |-> "none", pre |-> camera, mult |-> Zero, vec |-> NoVec],
               zooms |-> 0]
    /\ steps = 0
    /\ elapsed = Zero

\* No call of round_up_to_power_of_2 is under way.
RoundIdle == round = [op |-> "idle"]

\* No Zoomer is under observation.
ZoomerIdle ==
    /\ zoomer = [is_open |-> FALSE]
    /\ zlast = [op |-> "idle"]
    /\ zsteps = 0

Init == CamInit /\ VarIdle /\ RoundIdle /\ ZoomerIdle

CamIdle ==
    /\ camera = Camera_new(<<Rat(1, 4), I(500)>>, vec2(One, One))
    /\ panicked = FALSE
    /\ last = [op |-> "idle"]
    /\ steps = 0
    /\ elapsed = Zero

CanCall == ~panicked /\ steps < MaxSteps

Translate(translation) ==
    /\ CanCall
    /\ camera' = Camera_translate(camera, translation)
    /\ last' = Op("translate", Zero, translation, Zero)
    /\ steps' = steps + 1
    /\ UNCHANGED <<panicked, elapsed, varVars, roundVars, zoomerVars>>

ClampMeDaddy ==
    /\ CanCall
    /\ camera' = Camera_clamp_me_daddy(camera)
    /\ last' = Op("clamp_me_daddy", Zero, NoVec, Zero)
    /\ steps' = steps + 1
    /\ UNCHANGED <<panicked, elapsed, varVars, roundVars, zoomerVars>>

ZoomCall(zoom_multiplier, screen_point) ==
    /\ CanCall
    /\ IF Camera_zoom_panics(camera)
       THEN panicked' = TRUE /\ UNCHANGED camera
       ELSE camera' = Camera_zoom(camera, zoom_multiplier, screen_point)
            /\ UNCHANGED panicked
    /\ last' = Op("zoom", zoom_multiplier, screen_point, Zero)
    /\ steps' = steps + 1
    /\ UNCHANGED <<elapsed, varVars, roundVars, zoomerVars>>

Update(dt) ==
    /\ CanCall
    /\ RLe(Decades(LENGTH, RATE, RAdd(elapsed, dt)), I(MaxDecades))
    /\ camera' = Camera_update(camera, dt)
    /\ last' = Op("update", Zero, NoVec, dt)
    /\ steps' = steps + 1
    /\ elapsed' = RAdd(elapsed, dt)
    /\ UNCHANGED <<panicked, varVars, roundVars, zoomerVars>>

Next ==
    \/ \E t \in Translations : Translate(t)
    \/ ClampMeDaddy
    \/ \E m \in Multipliers, p \in ScreenPoints : ZoomCall(m, p)
    \/ \E dt \in Dts : Update(dt)

Spec == Init /\ [][Next]_vars

----------------------------------------------------------------------------
(* An InterpolatedVector / InterpolatedScalar on its own: new, then any    *)
(* sequence of set_target and update calls.                                *)

\* Bound: number of set_target and update calls in a behaviour.
MaxVarSteps == 4

\* Bound: the decades (see Decades) of exponential smoothing in a behaviour.
MaxVarDecades == 6

\* The interpolators of the unit tests (interpolators.rs:69, 79, 99) and the camera's.
Interpolators ==
    { LinearInterpolation_new(One), LinearInterpolation_new(I(10)),
      ExponentialSmoothing_new(One, I(5)), ExponentialSmoothing_new(LENGTH, RATE) }

Initials == { vec1(Zero), vec2(Zero, Zero), vec2(One, I(2)) }

Targets(R) ==
    IF R = 1 THEN { vec1(I(10)), vec1(I(-3)) }
    ELSE { vec2(I(10), I(5)), vec2(Zero, I(2)) }

VarDts == { Zero, Rat(1, 5), Rat(2, 5), Rat(1, 2), One, I(5) }

\* update takes any f32: dt arguments outside its documented dt >= 0.
NegativeDts == { Rat(-1, 5) }

\* The history record of a call: the operation, var before it, its arguments,
\* the time passed to update since the target was last set and in total, the
\* call before it, and the value var was constructed with.
VOp(op, pre, vec, dt, since, total) ==
    [op |-> op, pre |-> pre, vec |-> vec, dt |-> dt, since |-> since, total |-> total,
     prev |-> [op |-> vlast.op, pre |-> vlast.pre, dt |-> vlast.dt],
     initial |-> vlast.initial]

VarInit ==
    /\ \E initial \in Initials, interpolator \in Interpolators :
          /\ var = InterpolatedVector_new(initial, interpolator)
          /\ vlast = [op |-> "new", pre |-> var, vec |-> NoVec, dt |-> Zero,
                      since |-> Zero, total |-> Zero,
                      prev |-> [op |-> "none", pre |-> var, dt |-> Zero],
                      initial |-> initial]
    /\ vsteps = 0

InterpolationInit == CamIdle /\ VarInit /\ RoundIdle /\ ZoomerIdle

SetTarget(target) ==
    /\ vsteps < MaxVarSteps
    /\ var' = InterpolatedVector_set_target(var, target)
    /\ vlast' = VOp("set_target", var, target, Zero, Zero, vlast.total)
    /\ vsteps' = vsteps + 1
    /\ UNCHANGED <<camVars, roundVars, zoomerVars>>

\* The model evaluates an update of exponential smoothing where powf is
\* rational and the behaviour's decades stay within MaxVarDecades.
VarUpdateInModel(dt) ==
    /\ Interpolator_defined(var.interpolator, dt)
    /\ var.interpolator.kind = "ExponentialSmoothing" =>
          RLe(Decades(var.interpolator.length_sec, var.interpolator.exp_rate,
                      RAdd(vlast.total, dt)), I(MaxVarDecades))

VarUpdate(dt) ==
    /\ vsteps < MaxVarSteps
    /\ VarUpdateInModel(dt)
    /\ var' = InterpolatedVector_update(var, dt)
    /\ vlast' = VOp("update", var, NoVec, dt, RAdd(vlast.since, dt), RAdd(vlast.total, dt))
    /\ vsteps' = vsteps + 1
    /\ UNCHANGED <<camVars, roundVars, zoomerVars>>

\* InterpolatedVector::update called with dt < 0: the same code runs.  The
\* documentation leaves what follows such a call undefined, and the model
\* does not follow a behaviour past it.
VarUpdateNegative(dt) ==
    /\ vsteps < MaxVarSteps
    /\ VarUpdateInModel(dt)
    /\ var' = InterpolatedVector_update(var, dt)
    /\ vlast' = VOp("update(dt < 0)", var, NoVec, dt,
                    RAdd(vlast.since, dt), RAdd(vlast.total, dt))
    /\ vsteps' = MaxVarSteps
    /\ UNCHANGED <<camVars, roundVars, zoomerVars>>

\* current() and target(): the value read is recorded in vlast.vec
ReadCurrent ==
    /\ vsteps < MaxVarSteps
    /\ var' = var
    /\ vlast' = VOp("current", var, InterpolatedVector_current(var), Zero, vlast.since, vlast.total)
    /\ vsteps' = vsteps + 1
    /\ UNCHANGED <<camVars, roundVars, zoomerVars>>

ReadTarget ==
    /\ vsteps < MaxVarSteps
    /\ var' = var
    /\ vlast' = VOp("target", var, InterpolatedVector_target(var), Zero, vlast.since, vlast.total)
    /\ vsteps' = vsteps + 1
    /\ UNCHANGED <<camVars, roundVars, zoomerVars>>

InterpolationNext ==
    \/ \E target \in Targets(Len(var.current)) : SetTarget(target)
    \/ \E dt \in VarDts : VarUpdate(dt)
    \/ \E dt \in NegativeDts : VarUpdateNegative(dt)
    \/ ReadCurrent
    \/ ReadTarget

InterpolationSpec == InterpolationInit /\ [][InterpolationNext]_vars

----------------------------------------------------------------------------
(* round_up_to_power_of_2 (src/screenshot.rs), a generic function over     *)
(* PrimInt.  The model instantiates it at the unsigned types u8 and u16    *)
(* and keeps their width: in a debug build debug_assert! and the overflow  *)
(* checks of + and - are on, in a release build both are off and the       *)
(* arithmetic wraps.                                                       *)

RECURSIVE TwoTo(_)
TwoTo(n) == IF n = 0 THEN 1 ELSE 2 * TwoTo(n - 1)

\* The instantiations of T and their widths in bits.
Types == {"u8", "u16"}

BITS(T) == IF T = "u8" THEN 8 ELSE 16

\* T::max_value()
MAX(T) == TwoTo(BITS(T)) - 1

\* PrimInt::count_ones
RECURSIVE count_ones(_)
count_ones(x) == IF x = 0 THEN 0 ELSE (x % 2) + count_ones(x \div 2)

\* a & b
RECURSIVE BitAnd(_, _)
BitAnd(a, b) ==
    IF a = 0 \/ b = 0 THEN 0
    ELSE (a % 2) * (b % 2) + 2 * BitAnd(a \div 2, b \div 2)

\* !a in T
BitNot(T, a) == MAX(T) - a

\* a + b and a - b in T, wrapping; and whether they overflow T.
wrapping_add(T, a, b) == (a + b) % TwoTo(BITS(T))

wrapping_sub(T, a, b) == (a - b) % TwoTo(BITS(T))

add_overflows(T, a, b) == a + b > MAX(T)

sub_overflows(T, a, b) == a < b

Panic == [panicked |-> TRUE, value |-> 0]

Returns(v) == [panicked |-> FALSE, value |-> v]

\* Mutant of round_up_to_power_of_2: power_of_2 - 1 is not added (rounds down).
round_up_to_power_of_2_down(T, debug, value, power_of_2) ==
    IF debug /\ count_ones(power_of_2) # 1 THEN Panic
    ELSE IF debug /\ sub_overflows(T, power_of_2, 1) THEN Panic
    ELSE Returns(BitAnd(value, BitNot(T, wrapping_sub(T, power_of_2, 1))))

\* round_up_to_power_of_2::<T>(value, power_of_2) in a debug or release build
round_up_to_power_of_2(T, debug, value, power_of_2) ==
    IF debug /\ count_ones(power_of_2) # 1 THEN Panic
    ELSE IF debug /\ sub_overflows(T, power_of_2, 1) THEN Panic
    ELSE IF debug /\ add_overflows(T, value, wrapping_sub(T, power_of_2, 1)) THEN Panic
    ELSE Returns(BitAnd(wrapping_add(T, value, wrapping_sub(T, power_of_2, 1)),
                        BitNot(T, wrapping_sub(T, power_of_2, 1))))

\* Bound: the values drawn are within MaxValue of 0 or of T's maximum.
MaxValue == 72

\* Bound: the alignments drawn are 0..MaxAlignment and T's highest bit.
MaxAlignment == 8

Values(T) == (0..MaxValue) \cup ((MAX(T) - MaxValue)..MAX(T))

Alignments(T) == (0..MaxAlignment) \cup {TwoTo(BITS(T) - 1)}

\* The arguments of a call that has not been made yet.
RoundInputs ==
    \E T \in Types, debug \in BOOLEAN :
        \E value \in Values(T), power_of_2 \in Alignments(T) :
            round = [op |-> "arguments", T |-> T, debug |-> debug, value |-> value,
                     power_of_2 |-> power_of_2, outcome |-> Returns(0)]

RoundInit == CamIdle /\ VarIdle /\ RoundInputs /\ ZoomerIdle

RoundUp ==
    /\ round.op = "arguments"
    /\ round' = [round EXCEPT
                    !.op = "round_up_to_power_of_2",
                    !.outcome = round_up_to_power_of_2(round.T, round.debug,
                                                       round.value, round.power_of_2)]
    /\ UNCHANGED <<camVars, varVars, zoomerVars>>

RoundNext == RoundUp

RoundSpec == RoundInit /\ [][RoundNext]_vars

----------------------------------------------------------------------------
(* Screenshot (src/screenshot.rs), Highlighter (src/highlighter.rs) and    *)
(* Zoomer (src/zoomer.rs).  Window, device-context, imgui and OpenGL       *)
(* handles are left out; of the calls into Win32 and OpenGL the model      *)
(* keeps two counts, the desktop captures made by take_screenshot and the  *)
(* texture uploads made by glTexImage2D, and the flag panicked, which is   *)
(* set when a handler panics.                                              *)

\* The Screenshot returned by take_screenshot for a desktop of the given size.
Screenshot_new(size) == [width |-> size[1], height |-> size[2], pixel_bytes |-> "Some"]

\* Screenshot::take_pixel_bytes: Option::take().expect(..) panics on None
Screenshot_take_pixel_bytes_panics(self) == self.pixel_bytes = "None"

Screenshot_take_pixel_bytes(self) == [self EXCEPT !.pixel_bytes = "None"]

\* f32::INFINITY; the model never computes with it.
INFINITY == <<1, 0>>

\* f32::max
f32_max(a, b) == IF RLt(a, b) THEN b ELSE a

Highlighter_new ==
    [radius |-> InterpolatedScalar_new(I(50), ExponentialSmoothing_new(Rat(1, 4), Rat(3, 2))),
     is_enabled |-> FALSE]

Highlighter_update(self, dt) == [self EXCEPT !.radius = InterpolatedScalar_update(@, dt)]

Highlighter_set_radius(self, new_radius) ==
    [self EXCEPT !.radius = InterpolatedScalar_set_target(@, f32_max(new_radius, One))]

Highlighter_set_enabled(self, enabled) == [self EXCEPT !.is_enabled = enabled]

Highlighter_is_enabled(self) == self.is_enabled

Highlighter_radius(self) ==
    IF self.is_enabled THEN InterpolatedScalar_current(self.radius) ELSE INFINITY

\* The desktop the screenshots are taken of: width and height in pixels.
DesktopSize == <<4, 2>>

\* Zoomer::new
Zoomer_new ==
    [client_width |-> 0, client_height |-> 0,
     screenshot |-> "None", is_open |-> FALSE, debug_window_is_open |-> FALSE,
     highlighter |-> Highlighter_new,
     mouse_pos |-> vec2(Zero, Zero), last_mouse_screen_pos |-> vec2(Zero, Zero),
     camera |-> "None",
     captures |-> 0, uploads |-> 0, panicked |-> FALSE]

\* self.screenshot = Some(self.take_screenshot())
Zoomer_take_screenshot(self) ==
    [self EXCEPT !.screenshot = Screenshot_new(DesktopSize), !.captures = @ + 1]

Zoomer_upload_screenshot_to_gpu(self) ==
    IF Screenshot_take_pixel_bytes_panics(self.screenshot)
    THEN [self EXCEPT !.panicked = TRUE]
    ELSE [self EXCEPT !.screenshot = Screenshot_take_pixel_bytes(@), !.uploads = @ + 1]

Zoomer_screenshot_aspect_ratio(self) ==
    RDiv(I(self.screenshot.width), I(self.screenshot.height))

Zoomer_aspect_ratio_ratio(self) ==
    RDiv(RDiv(I(self.client_width), I(self.client_height)),
         Zoomer_screenshot_aspect_ratio(self))

\* Zoomer::init; init_render_env uploads the screenshot and init_imgui opens
\* the debug window.
Zoomer_init(self, client_width, client_height) ==
    LET self1 == Zoomer_take_screenshot(self)
        self2 == [self1 EXCEPT !.client_width = client_width,
                               !.client_height = client_height]
        self3 == [self2 EXCEPT
                     !.camera = Camera_new(<<Rat(1, 4), I(500)>>,
                                           vec2(One, Zoomer_aspect_ratio_ratio(self2))),
                     !.is_open = TRUE]
        self4 == Zoomer_upload_screenshot_to_gpu(self3)
    IN  IF self4.panicked THEN self4
        ELSE [self4 EXCEPT !.debug_window_is_open = TRUE]

Zoomer_on_resize(self, new_client_width, new_client_height) ==
    [self EXCEPT !.client_width = new_client_width, !.client_height = new_client_height]

Zoomer_pixel_to_screen_space(self, pixel_coords) ==
    vec2(RSub(RMul(RDiv(pixel_coords[1], I(self.client_width)), I(2)), One),
         RMul(I(-1), RSub(RMul(RDiv(pixel_coords[2], I(self.client_height)), I(2)), One)))

Zoomer_on_left_mouse_down(self, x, y) ==
    [self EXCEPT !.last_mouse_screen_pos =
        Zoomer_pixel_to_screen_space(self, vec2(I(x), I(y)))]

Zoomer_on_left_mouse_up(self) ==
    [self EXCEPT !.camera = Camera_clamp_me_daddy(@)]

\* Mutant of Zoomer_on_mouse_move: the camera is clamped after each translation.
Zoomer_on_mouse_move_clamping(self, x, y, left_mouse_down) ==
    LET self1 == [self EXCEPT !.mouse_pos = vec2(I(x), I(y))]
        mouse_screen_pos == Zoomer_pixel_to_screen_space(self1, self1.mouse_pos)
        delta == VSub(mouse_screen_pos, self1.last_mouse_screen_pos)
    IN  IF ~left_mouse_down THEN self1
        ELSE [self1 EXCEPT !.camera = Camera_clamp_me_daddy(Camera_translate(@, delta)),
                           !.last_mouse_screen_pos = mouse_screen_pos]

\* Mutant of Zoomer_on_mouse_move: last_mouse_screen_pos is not advanced.
Zoomer_on_mouse_move_from_press(self, x, y, left_mouse_down) ==
    LET self1 == [self EXCEPT !.mouse_pos = vec2(I(x), I(y))]
        mouse_screen_pos == Zoomer_pixel_to_screen_space(self1, self1.mouse_pos)
        delta == VSub(mouse_screen_pos, self1.last_mouse_screen_pos)
    IN  IF ~left_mouse_down THEN self1
        ELSE [self1 EXCEPT !.camera = Camera_translate(@, delta)]

Zoomer_on_mouse_move(self, x, y, left_mouse_down) ==
    LET self1 == [self EXCEPT !.mouse_pos = vec2(I(x), I(y))]
        mouse_screen_pos == Zoomer_pixel_to_screen_space(self1, self1.mouse_pos)
        delta == VSub(mouse_screen_pos, self1.last_mouse_screen_pos)
    IN  IF ~left_mouse_down THEN self1
        ELSE [self1 EXCEPT !.camera = Camera_translate(@, delta),
                           !.last_mouse_screen_pos = mouse_screen_pos]

\* Mutant of Zoomer_on_mouse_wheel: ctrl alone selects the highlighter.
Zoomer_on_mouse_wheel_ctrl_only(self, delta, x, y, ctrl_is_down) ==
    LET delta1 == RDiv(RDiv(I(delta), I(120)), I(10))
        screen_point == Zoomer_pixel_to_screen_space(self, vec2(I(x), I(y)))
    IN  IF ctrl_is_down
        THEN [self EXCEPT !.highlighter =
                 Highlighter_set_radius(@,
                     RMul(InterpolatedScalar_current(@.radius),
                          RAdd(One, RMul(delta1, I(2)))))]
        ELSE [self EXCEPT !.camera = Camera_zoom(@, RAdd(One, delta1), screen_point)]

\* Zoomer::on_mouse_wheel; the camera's zoom_range is never empty, so
\* Camera::zoom does not panic here.
Zoomer_on_mouse_wheel(self, delta, x, y, ctrl_is_down) ==
    LET delta1 == RDiv(RDiv(I(delta), I(120)), I(10))
        screen_point == Zoomer_pixel_to_screen_space(self, vec2(I(x), I(y)))
    IN  IF ctrl_is_down /\ Highlighter_is_enabled(self.highlighter)
        THEN [self EXCEPT !.highlighter =
                 Highlighter_set_radius(@,
                     RMul(Highlighter_radius(@), RAdd(One, RMul(delta1, I(2)))))]
        ELSE [self EXCEPT !.camera = Camera_zoom(@, RAdd(One, delta1), screen_point)]

\* Zoomer::on_key_down; the keys are VK_F2, b'C', VK_ESCAPE and any other.
Zoomer_on_key_down(self, key) ==
    LET self1 == IF key = "VK_F2"
                 THEN [self EXCEPT !.debug_window_is_open = ~@]
                 ELSE self
        self2 == IF key = "C"
                 THEN [self1 EXCEPT !.highlighter =
                          Highlighter_set_enabled(@, ~Highlighter_is_enabled(@))]
                 ELSE self1
    IN  IF key = "VK_ESCAPE" THEN [self2 EXCEPT !.is_open = FALSE] ELSE self2

\* Mutant of Zoomer_on_hotkey: the screenshot at hand is uploaded again.
Zoomer_on_hotkey_reusing_screenshot(self) ==
    IF self.is_open THEN self
    ELSE LET self1 == Zoomer_upload_screenshot_to_gpu(self)
         IN  IF self1.panicked THEN self1 ELSE [self1 EXCEPT !.is_open = TRUE]

\* Mutant of Zoomer_on_hotkey: is_open is not tested.
Zoomer_on_hotkey_unguarded(self) ==
    LET self1 == Zoomer_upload_screenshot_to_gpu(Zoomer_take_screenshot(self))
    IN  IF self1.panicked THEN self1 ELSE [self1 EXCEPT !.is_open = TRUE]

Zoomer_on_hotkey(self) ==
    IF self.is_open THEN self
    ELSE LET self1 == Zoomer_upload_screenshot_to_gpu(Zoomer_take_screenshot(self))
         IN  IF self1.panicked THEN self1 ELSE [self1 EXCEPT !.is_open = TRUE]

\* Zoomer::update: the camera and the highlighter advance; the values it
\* computes after that go to shader uniforms only.
Zoomer_update(self, dt) ==
    [self EXCEPT !.camera = Camera_update(@, dt),
                 !.highlighter = Highlighter_update(@, dt)]

----------------------------------------------------------------------------
(* The Zoomer as a state machine: Zoomer::new, then init, then any         *)
(* sequence of events.  The handlers unwrap the camera and the window, so  *)
(* they are installed after init.                                          *)

\* Bound: number of events after init in a behaviour.
MaxZoomerSteps == 3

\* Bound: the decades (see Decades) the highlighter's smoothing makes in a
\* behaviour.
MaxZoomerDecades == 6

\* Client sizes (width, height) passed to init and on_resize.
ClientSizes == { <<4, 2>>, <<2, 2>> }

\* Mouse positions (x, y) in pixels.
Pixels == { <<0, 0>>, <<3, 1>>, <<1, 2>> }

\* Mouse positions of the wheel events.
WheelPixels == { <<3, 1>>, <<1, 2>> }

\* Wheel deltas: one notch forward, five notches back.
WheelDeltas == { 120, -600 }

Keys == { "VK_F2", "C", "VK_ESCAPE", "A" }

\* dt of Zoomer::update, on which both smoothings are rational.
ZoomerDts == { Zero, One }

\* The drag under way: the NDC position of the press, position.target at the
\* press, and whether only dragging moves have followed it.
NoDrag == [active |-> FALSE, from |-> NoVec, target |-> NoVec]

\* The history record of an event; opens counts the events after init that
\* found the window closed and left it open.
ZOp(op, args, drag, elapsed_sec) ==
    [op |-> op, pre |-> zoomer, args |-> args, drag |-> drag, elapsed |-> elapsed_sec,
     opens |-> zlast.opens +
               (IF op # "init" /\ ~zoomer.is_open /\ zoomer'.is_open THEN 1 ELSE 0)]

ZoomerInit ==
    /\ CamIdle /\ VarIdle /\ RoundIdle
    /\ zoomer = Zoomer_new
    /\ zlast = [op |-> "new", pre |-> Zoomer_new, args |-> <<>>, drag |-> NoDrag,
                elapsed |-> Zero, opens |-> 0]
    /\ zsteps = 0

ZInit(size) ==
    /\ zlast.op = "new"
    /\ zoomer' = Zoomer_init(zoomer, size[1], size[2])
    /\ zlast' = ZOp("init", size, NoDrag, Zero)
    /\ UNCHANGED <<zsteps, camVars, varVars, roundVars>>

ZCanCall == zlast.op # "new" /\ ~zoomer.panicked /\ zsteps < MaxZoomerSteps

OnResize(size) ==
    /\ ZCanCall
    /\ zoomer' = Zoomer_on_resize(zoomer, size[1], size[2])
    /\ zlast' = ZOp("on_resize", size, NoDrag, zlast.elapsed)
    /\ zsteps' = zsteps + 1
    /\ UNCHANGED <<camVars, varVars, roundVars>>

OnLeftMouseDown(pixel) ==
    /\ ZCanCall
    /\ zoomer' = Zoomer_on_left_mouse_down(zoomer, pixel[1], pixel[2])
    /\ zlast' = ZOp("on_left_mouse_down", pixel,
                    [active |-> TRUE,
                     from |-> Zoomer_pixel_to_screen_space(zoomer, vec2(I(pixel[1]), I(pixel[2]))),
                     target |-> InterpolatedVector_target(zoomer.camera.position)],
                    zlast.elapsed)
    /\ zsteps' = zsteps + 1
    /\ UNCHANGED <<camVars, varVars, roundVars>>

OnLeftMouseUp ==
    /\ ZCanCall
    /\ zoomer' = Zoomer_on_left_mouse_up(zoomer)
    /\ zlast' = ZOp("on_left_mouse_up", <<>>, NoDrag, zlast.elapsed)
    /\ zsteps' = zsteps + 1
    /\ UNCHANGED <<camVars, varVars, roundVars>>

OnMouseMove(pixel, left_mouse_down) ==
    /\ ZCanCall
    /\ zoomer' = Zoomer_on_mouse_move(zoomer, pixel[1], pixel[2], left_mouse_down)
    /\ zlast' = ZOp("on_mouse_move", <<pixel, left_mouse_down>>,
                    IF left_mouse_down THEN zlast.drag ELSE NoDrag, zlast.elapsed)
    /\ zsteps' = zsteps + 1
    /\ UNCHANGED <<camVars, varVars, roundVars>>

OnMouseWheel(delta, pixel, ctrl_is_down) ==
    /\ ZCanCall
    /\ zoomer' = Zoomer_on_mouse_wheel(zoomer, delta, pixel[1], pixel[2], ctrl_is_down)
    /\ zlast' = ZOp("on_mouse_wheel", <<delta, pixel, ctrl_is_down>>, NoDrag, zlast.elapsed)
    /\ zsteps' = zsteps + 1
    /\ UNCHANGED <<camVars, varVars, roundVars>>

OnKeyDown(key) ==
    /\ ZCanCall
    /\ zoomer' = Zoomer_on_key_down(zoomer, key)
    /\ zlast' = ZOp("on_key_down", <<key>>, NoDrag, zlast.elapsed)
    /\ zsteps' = zsteps + 1
    /\ UNCHANGED <<camVars, varVars, roundVars>>

OnHotkey ==
    /\ ZCanCall
    /\ zoomer' = Zoomer_on_hotkey(zoomer)
    /\ zlast' = ZOp("on_hotkey", <<>>, NoDrag, zlast.elapsed)
    /\ zsteps' = zsteps + 1
    /\ UNCHANGED <<camVars, varVars, roundVars>>

\* The model evaluates Zoomer::update while the highlighter's decades stay
\* within MaxZoomerDecades.
ZUpdate(dt) ==
    /\ ZCanCall
    /\ RLe(Decades(Rat(1, 4), Rat(3, 2), RAdd(zlast.elapsed, dt)), I(MaxZoomerDecades))
    /\ zoomer' = Zoomer_update(zoomer, dt)
    /\ zlast' = ZOp("update", <<dt>>, NoDrag, RAdd(zlast.elapsed, dt))
    /\ zsteps' = zsteps + 1
    /\ UNCHANGED <<camVars, varVars, roundVars>>

ZoomerNext ==
    \/ \E size \in ClientSizes : ZInit(size)
    \/ \E size \in ClientSizes : OnResize(size)
    \/ \E pixel \in Pixels : OnLeftMouseDown(pixel)
    \/ OnLeftMouseUp
    \/ \E pixel \in Pixels, left_mouse_down \in BOOLEAN : OnMouseMove(pixel, left_mouse_down)
    \/ \E delta \in WheelDeltas, pixel \in WheelPixels, ctrl_is_down \in BOOLEAN :
          OnMouseWheel(delta, pixel, ctrl_is_down)
    \/ \E key \in Keys : OnKeyDown(key)
    \/ OnHotkey
    \/ \E dt \in ZoomerDts : ZUpdate(dt)

ZoomerSpec == ZoomerInit /\ [][ZoomerNext]_vars

----------------------------------------------------------------------------
(* Properties of the camera, checked under Spec.                           *)

PosT(c) == InterpolatedVector_target(c.position)

PosC(c) == InterpolatedVector_current(c.position)

ZT(c) == InterpolatedScalar_target(c.zoom_factor)

ZC(c) == InterpolatedScalar_current(c.zoom_factor)

NonEmptyPositive(range) == RLt(Zero, range[1]) /\ RLe(range[1], range[2])

InRange(z, range) == RLe(range[1], z) /\ RLe(z, range[2])

\* C1: for a camera with a non-empty positive zoom_range, once zoom has been
\* called, zoom_factor.target() lies within zoom_range after every later call
\* (zoom, translate, clamp_me_daddy or update).
C1_ZoomTargetInRange ==
    (NonEmptyPositive(camera.zoom_range) /\ last.zooms > 0)
        => InRange(ZT(camera), camera.zoom_range)

\* A zoom whose requested factor lies above the range has just been applied.
C1_Witness ==
    /\ last.op = "zoom" /\ ~panicked
    /\ NonEmptyPositive(camera.zoom_range)
    /\ RLt(camera.zoom_range[2], RMul(ZT(last.pre), last.mult))

\* C2: after zoom(m, s), (s - position.target) / zoom_factor.target equals
\* (s - p0) / z0 for the position target p0 and zoom target z0 before the
\* call, also when zoom_range truncated the new zoom target.
C2_ZoomTowardPoint ==
    (last.op = "zoom" /\ ~panicked) =>
        VDivS(VSub(last.vec, PosT(camera)), ZT(camera))
            = VDivS(VSub(last.vec, PosT(last.pre)), ZT(last.pre))

\* A zoom that moved the zoom target, truncated by zoom_range, about a point
\* that was not at the camera's target position.
C2_Witness ==
    /\ last.op = "zoom" /\ ~panicked
    /\ ZT(camera) # ZT(last.pre)
    /\ ZT(camera) # RMul(ZT(last.pre), last.mult)
    /\ \A i \in 1..2 : last.vec[i] # PosT(last.pre)[i]

\* C7: a clamp_me_daddy() call that directly follows another one leaves
\* position.target unchanged.
C7_ClampIdempotent ==
    (last.op = "clamp_me_daddy" /\ last.prev.op = "clamp_me_daddy")
        => PosT(camera) = PosT(last.pre)

\* Two clamps in succession, the first of which moved the target.
C7_Witness ==
    /\ last.op = "clamp_me_daddy" /\ last.prev.op = "clamp_me_daddy"
    /\ PosT(last.prev.pre) # PosT(last.pre)

\* The camera-space bound of component i at the zoom factor z.
Bound(c, i, z) == RMul(c.position_range[i], z)

\* C8: right after clamp_me_daddy(), each component of position.target lies in
\* [-bound, bound] with bound = position_range * zoom_factor.current(); a
\* component that was inside is unchanged, one outside is at the nearer end.
C8_ClampIntoCurrentBound ==
    last.op = "clamp_me_daddy" =>
        \A i \in 1..2 :
            LET bound == Bound(camera, i, ZC(last.pre))
                old == PosT(last.pre)[i]
                new == PosT(camera)[i]
            IN  /\ RLe(RNeg(bound), new) /\ RLe(new, bound)
                /\ (RLe(RNeg(bound), old) /\ RLe(old, bound)) => new = old
                /\ RLt(bound, old) => new = bound
                /\ RLt(old, RNeg(bound)) => new = RNeg(bound)

\* A clamp while the smoothed zoom lags behind its target, with one component
\* beyond the bound and the other one inside it and not zero.
C8_Witness ==
    /\ last.op = "clamp_me_daddy"
    /\ ZC(last.pre) # ZT(last.pre)
    /\ \E i, j \in 1..2 :
          /\ RLt(Bound(camera, i, ZC(last.pre)), RAbs(PosT(last.pre)[i]))
          /\ RLt(RAbs(PosT(last.pre)[j]), Bound(camera, j, ZC(last.pre)))
          /\ PosT(last.pre)[j] # Zero

\* C9: translate(delta) adds delta to position.target and changes nothing
\* else (no clamping); translate(a) directly followed by translate(b) leaves
\* the camera as translate(a + b) would.
C9_TranslateAdds ==
    /\ last.op = "translate" =>
          camera = [last.pre EXCEPT !.position.target = VAdd(@, last.vec)]
    /\ (last.op = "translate" /\ last.prev.op = "translate") =>
          camera = [last.prev.pre EXCEPT
                       !.position.target = VAdd(@, VAdd(last.prev.vec, last.vec))]

\* Two translates in succession that end outside the position bound.
C9_Witness ==
    /\ last.op = "translate" /\ last.prev.op = "translate"
    /\ \E i \in 1..2 : RLt(Bound(camera, i, ZC(camera)), RAbs(PosT(camera)[i]))

----------------------------------------------------------------------------
(* Properties of the interpolation engine, checked under InterpolationSpec. *)

IsExp(v) == v.interpolator.kind = "ExponentialSmoothing"

IsLin(v) == v.interpolator.kind = "LinearInterpolation"

\* current - target, per component
Err(v) == VSub(v.current, v.target)

Dim(v) == DOMAIN v.current

Epsilon == Rat(1, 1000)

\* The decades of exponential smoothing that dt seconds make for v.
VarDecades(v, dt) == Decades(v.interpolator.length_sec, v.interpolator.exp_rate, dt)

\* C3: update(0.0) leaves current unchanged, for either interpolator, in every
\* reachable state.  (Violated by LinearInterpolation once time > 0.)
C3_UpdateZeroKeepsCurrent ==
    (vlast.op = "update" /\ vlast.dt = Zero) => var.current = vlast.pre.current

\* C4: with exponential smoothing, an update(dt) with dt > 0 moves every
\* component of current toward target without passing it (the error does not
\* grow, shrinks when it is not zero, and keeps its sign), and once the updates
\* since the target was last set add up to 5 decades or more (1 s for the
\* camera's and the test's parameters) every component is within 1e-3 of it.
C4_ExpSmoothingConverges ==
    IsExp(var) =>
        /\ (vlast.op = "update" /\ RLt(Zero, vlast.dt)) =>
              \A i \in Dim(var) :
                  LET e0 == Err(vlast.pre)[i]
                      e1 == Err(var)[i]
                  IN  /\ RLe(RAbs(e1), RAbs(e0))
                      /\ e0 # Zero => RLt(RAbs(e1), RAbs(e0))
                      /\ RSign(e1) = RSign(e0)
        /\ RLe(I(5), VarDecades(var, vlast.since)) =>
              \A i \in Dim(var) : RLt(RAbs(Err(var)[i]), Epsilon)

\* Three updates by the same dt = 0.4 after a set_target, ending within
\* epsilon of a target that current has not reached.
C4_Witness ==
    /\ IsExp(var) /\ vlast.op = "update"
    /\ vlast.dt = Rat(2, 5) /\ vlast.since = Rat(6, 5)
    /\ \A i \in Dim(var) : Err(var)[i] # Zero /\ RLt(RAbs(Err(var)[i]), Epsilon)

\* C5: the first update(dt) of a LinearInterpolation(length_sec) (its time is
\* still 0) yields current = c0 + (t - c0) * dt / length_sec per component; the
\* three unit tests' values are instances.
C5_LinearFirstUpdateExact ==
    (IsLin(var) /\ vlast.op = "update" /\ vlast.pre.interpolator.time = Zero) =>
        LET length_sec == RDiv(One, var.interpolator.k)
            c0 == vlast.pre.current
            t == var.target
        IN  /\ \A i \in Dim(var) :
                  var.current[i] =
                      RAdd(c0[i], RDiv(RMul(RSub(t[i], c0[i]), vlast.dt), length_sec))
            /\ (length_sec = One /\ c0 = vec1(Zero) /\ t = vec1(I(10))
                    /\ vlast.dt = Rat(1, 2)) => var.current = vec1(I(5))
            /\ (length_sec = I(10) /\ c0 = vec1(Zero) /\ t = vec1(I(10))
                    /\ vlast.dt = I(5)) => var.current = vec1(I(5))
            /\ (length_sec = One /\ c0 = vec2(Zero, Zero) /\ t = vec2(I(10), I(5))
                    /\ vlast.dt = Rat(1, 2)) => var.current = vec2(I(5), Rat(5, 2))

\* The state of the test linear_interpolation_vec after its update.
C5_Witness ==
    /\ IsLin(var) /\ vlast.op = "update" /\ vlast.pre.interpolator.time = Zero
    /\ var.interpolator.k = One /\ vlast.dt = Rat(1, 2)
    /\ vlast.pre.current = vec2(Zero, Zero)
    /\ var.target = vec2(I(10), I(5))
    /\ var.current = vec2(I(5), Rat(5, 2))

\* C6: one update(dt) of ExponentialSmoothing(length_sec, exp_rate) sets
\* current to lerp(current, target, 1 - (10^-exp_rate)^(dt / length_sec)): it
\* multiplies the error current - target by 10^(-exp_rate * dt / length_sec).
\* From (1, 2) with target (10, 5), length_sec 1, exp_rate 5 and dt 1, every
\* component ends within 1e-3 of the target.
C6_ExpSmoothingStep ==
    (IsExp(var) /\ vlast.op = "update") =>
        LET n == VarDecades(var, vlast.dt)[1]
            c0 == vlast.pre.current
            t == var.target
        IN  /\ \A i \in Dim(var) :
                  /\ Err(var)[i] = RDiv(Err(vlast.pre)[i], I(TenTo(n)))
                  /\ var.current[i] =
                        RAdd(RMul(c0[i], Rat(1, TenTo(n))),
                             RMul(t[i], RSub(One, Rat(1, TenTo(n)))))
            /\ (var.interpolator = ExponentialSmoothing_new(One, I(5))
                    /\ c0 = vec2(One, I(2)) /\ t = vec2(I(10), I(5)) /\ vlast.dt = One)
                 => \A i \in Dim(var) : RLt(RAbs(Err(var)[i]), Epsilon)

\* The state of the test exponential_smoothing_with_initial_value after its update.
C6_Witness ==
    /\ vlast.op = "update" /\ vlast.dt = One
    /\ var.interpolator = ExponentialSmoothing_new(One, I(5))
    /\ vlast.pre.current = vec2(One, I(2))
    /\ var.target = vec2(I(10), I(5))
    /\ var.current # var.target

\* C10 as stated: set_target(v) assigns target = v and leaves current and the
\* interpolator unchanged; update(dt) changes current only; current() and
\* target() change nothing.  (Violated: LinearInterpolation's update changes
\* the interpolator's time.)
C10_UpdateChangesCurrentOnly ==
    /\ vlast.op = "set_target" => var = [vlast.pre EXCEPT !.target = vlast.vec]
    /\ vlast.op = "update" => var = [vlast.pre EXCEPT !.current = var.current]
    /\ vlast.op \in {"current", "target"} => var = vlast.pre

\* C10 amended: as stated, except that update(dt) also advances a
\* LinearInterpolation's time by dt (and changes nothing else of the
\* interpolator); current() and target() return the fields.
C10_FrameEffects ==
    /\ vlast.op = "set_target" => var = [vlast.pre EXCEPT !.target = vlast.vec]
    /\ vlast.op = "update" =>
          /\ var.target = vlast.pre.target
          /\ IsExp(var) => var.interpolator = vlast.pre.interpolator
          /\ IsLin(var) => var.interpolator =
                [vlast.pre.interpolator EXCEPT !.time = RAdd(@, vlast.dt)]
    /\ vlast.op = "current" => (var = vlast.pre /\ vlast.vec = var.current)
    /\ vlast.op = "target" => (var = vlast.pre /\ vlast.vec = var.target)

\* A set_target that moved the target away from a current that updates had
\* already moved, on a LinearInterpolation whose time is past 0.
C10_Witness ==
    /\ vlast.op = "set_target" /\ IsLin(var)
    /\ var.target # vlast.pre.target
    /\ var.current # var.target
    /\ var.interpolator.time # Zero

----------------------------------------------------------------------------
(* Further properties of the camera, checked under Spec.                   *)

\* Points the read accessors are evaluated at (NDC and world coordinates).
Points == { vec2(One, Rat(-1, 2)), vec2(I(-3), I(2)) }

\* The matrix m applied to the point w as the column vector (w.x, w.y, 0, 1).
Mat4_apply(m, w) ==
    [i \in 1..2 |-> RAdd(RAdd(RMul(m[i][1], w[1]), RMul(m[i][2], w[2])), m[i][4])]

\* What the read accessors return for the camera c.
Reads(c) ==
    [screen_to_camera_space |-> [p \in Points |-> Camera_screen_to_camera_space(c, p)],
     screen_to_world_space |-> [p \in Points |-> Camera_screen_to_world_space(c, p)],
     to_homogenous |-> Camera_to_homogenous(c),
     position |-> Camera_position(c),
     zoom_factor |-> Camera_zoom_factor(c)]

\* C11: translate, zoom and clamp_me_daddy leave position.current and
\* zoom_factor.current unchanged, and with them what screen_to_camera_space,
\* screen_to_world_space, to_homogenous, position() and zoom_factor() return.
C11_InputMutatesTargetsOnly ==
    last.op \in {"translate", "zoom", "clamp_me_daddy"} =>
        /\ PosC(camera) = PosC(last.pre)
        /\ ZC(camera) = ZC(last.pre)
        /\ Reads(camera) = Reads(last.pre)

\* A zoom that moved both targets of a camera whose smoothed values were
\* under way (not at their initial values, not at their targets).
C11_Witness ==
    /\ last.op = "zoom" /\ ~panicked
    /\ ZT(camera) # ZT(last.pre) /\ PosT(camera) # PosT(last.pre)
    /\ ZC(camera) # One /\ ZC(camera) # ZT(last.pre)
    /\ PosC(camera) # VZeros(2) /\ PosC(camera) # PosT(last.pre)

C13_CoordinateRoundTrip ==
    \A p \in Points :
        LET cs == Camera_screen_to_camera_space(camera, p)
            ws == Camera_screen_to_world_space(camera, p)
        IN  /\ cs = VSub(p, PosC(camera))
            /\ VAdd(cs, PosC(camera)) = p
            /\ ws = VDivS(VSub(p, PosC(camera)), ZC(camera))
            /\ VAdd(VScale(ws, ZC(camera)), PosC(camera)) = p

\* A camera whose smoothed position and zoom are away from their initial
\* values and from their targets.
C13_Witness ==
    /\ ZC(camera) # One /\ ZC(camera) # ZT(camera)
    /\ \A i \in 1..2 : PosC(camera)[i] # Zero /\ PosC(camera)[i] # PosT(camera)[i]

\* C14: to_homogenous() maps a world point w to
\* w * zoom_factor.current() + position.current() (scale first, translation
\* second), and screen_to_world_space maps that point back to w.
C14_HomogenousScaleThenTranslate ==
    LET m == Camera_to_homogenous(camera)
    IN  \A w \in Points :
            LET s == Mat4_apply(m, w)
            IN  /\ s = VAdd(VScale(w, ZC(camera)), PosC(camera))
                /\ Camera_screen_to_world_space(camera, s) = w

\* A camera with a smoothed zoom that is not 1 and a smoothed position that
\* is not 0 in either component.
C14_Witness ==
    /\ last.op = "update"
    /\ ZC(camera) # One
    /\ \A i \in 1..2 : PosC(camera)[i] # Zero

\* C15: for a camera with a non-empty positive zoom_range, zoom_factor.target()
\* and zoom_factor.current() are > 0 in every state, whatever the multipliers
\* (zero and negative ones included) and the dt >= 0 of the updates.
C15_ZoomFactorPositive ==
    NonEmptyPositive(camera.zoom_range) =>
        RLt(Zero, ZT(camera)) /\ RLt(Zero, ZC(camera))

\* An update with dt > 0 right after a zoom by a multiplier <= 0.
C15_Witness ==
    /\ last.op = "update" /\ RLt(Zero, last.dt)
    /\ last.prev.op = "zoom"
    /\ ZT(last.prev.pre) # ZT(camera)
    /\ ZT(camera) = camera.zoom_range[1]
    /\ ZC(camera) # ZT(camera)

\* C16: a zoom whose requested factor target * multiplier lies outside
\* zoom_range raises no error, sets the target to the nearer bound and
\* translates by the multiplier new_target / old_target; at a bound, a
\* multiplier that pushes further out changes neither target.
C16_OutOfRangeZoomTruncated ==
    (last.op = "zoom" /\ NonEmptyPositive(camera.zoom_range)) =>
        LET z0 == ZT(last.pre)
            p0 == PosT(last.pre)
            requested == RMul(z0, last.mult)
            lo == camera.zoom_range[1]
            hi == camera.zoom_range[2]
            point == VSub(last.vec, p0)
        IN  /\ ~panicked
            /\ RLt(requested, lo) => ZT(camera) = lo
            /\ RLt(hi, requested) => ZT(camera) = hi
            /\ ~InRange(requested, camera.zoom_range) =>
                  PosT(camera) =
                      VAdd(p0, VSub(point, VScale(point, RDiv(ZT(camera), z0))))
            /\ ((z0 = hi /\ RLt(hi, requested)) \/ (z0 = lo /\ RLt(requested, lo))) =>
                  (ZT(camera) = z0 /\ PosT(camera) = p0)

\* A zoom at the upper bound by a multiplier > 1, about a point away from
\* the target position.
C16_Witness ==
    /\ last.op = "zoom" /\ ~panicked
    /\ ZT(last.pre) = camera.zoom_range[2]
    /\ RLt(One, last.mult)
    /\ \A i \in 1..2 : last.vec[i] # PosT(last.pre)[i]

----------------------------------------------------------------------------
(* Further properties of the interpolators, checked under                  *)
(* InterpolationSpec.                                                      *)

\* C17: with exponential smoothing and the target unchanged, update(a)
\* followed by update(b) leaves the current that the single update(a + b)
\* leaves: the error is the error before both, times
\* 10^(-exp_rate * (a + b) / length_sec).
C17_ExpSmoothingFrameRateIndependent ==
    (IsExp(var) /\ vlast.op = "update" /\ vlast.prev.op = "update") =>
        LET before == vlast.prev.pre
            a == vlast.prev.dt
            b == vlast.dt
        IN  /\ var.current = InterpolatedVector_update(before, RAdd(a, b)).current
            /\ \A i \in Dim(var) :
                  Err(var)[i] =
                      RMul(Err(before)[i],
                           PowInvTen(var.interpolator.exp_rate,
                                     RDiv(RAdd(a, b), var.interpolator.length_sec)))

\* Two consecutive updates by different positive dt, away from the target.
C17_Witness ==
    /\ IsExp(var) /\ vlast.op = "update" /\ vlast.prev.op = "update"
    /\ RLt(Zero, vlast.prev.dt) /\ RLt(vlast.prev.dt, vlast.dt)
    /\ \A i \in Dim(var) : Err(var)[i] # Zero

\* C19: with LinearInterpolation(length_sec), initial value c0, a target t
\* set before the first update, and updates whose accumulated time T stays
\* <= length_sec, after each update current = c0 + (t - c0) * T / length_sec.
\* (Violated from the second update on.)
C19_LinearConstantRate ==
    (IsLin(var) /\ vlast.op = "update" /\ vlast.since = vlast.total
        /\ RLe(vlast.total, RDiv(One, var.interpolator.k))) =>
        \A i \in Dim(var) :
            var.current[i] =
                RAdd(vlast.initial[i],
                     RDiv(RMul(RSub(var.target[i], vlast.initial[i]), vlast.total),
                          RDiv(One, var.interpolator.k)))

\* C20: LinearInterpolation's time is the sum of every dt passed to update
\* since construction: update(dt) adds dt whatever length_sec is, set_target
\* leaves it alone; and an update that leaves the time above length_sec
\* moves every component of current that differed from target past it.
C20_LinearTimeAccumulates ==
    IsLin(var) =>
        /\ var.interpolator.time = vlast.total
        /\ vlast.op = "update" =>
              /\ var.interpolator.time = RAdd(vlast.pre.interpolator.time, vlast.dt)
              /\ RLe(vlast.pre.interpolator.time, var.interpolator.time)
        /\ vlast.op = "set_target" =>
              var.interpolator.time = vlast.pre.interpolator.time
        /\ (vlast.op = "update"
                /\ RLt(RDiv(One, var.interpolator.k), var.interpolator.time)) =>
              \A i \in Dim(var) :
                  Err(vlast.pre)[i] # Zero =>
                      /\ Err(var)[i] # Zero
                      /\ RSign(Err(var)[i]) # RSign(Err(vlast.pre)[i])

\* An overshooting update after a set_target that was made when the time
\* had already advanced.
C20_Witness ==
    /\ IsLin(var) /\ vlast.op = "update"
    /\ vlast.since # vlast.total
    /\ RLt(vlast.pre.interpolator.time, RDiv(One, var.interpolator.k))
    /\ RLt(RDiv(One, var.interpolator.k), var.interpolator.time)
    /\ \A i \in Dim(var) :
          Err(vlast.pre)[i] # Zero /\ RSign(Err(var)[i]) # RSign(Err(vlast.pre)[i])

----------------------------------------------------------------------------
(* Properties of round_up_to_power_of_2, checked under RoundSpec.          *)

IsPowerOfTwo(p) == \E n \in 0..15 : p = TwoTo(n)

\* r is the smallest multiple of p that is >= v.
IsSmallestMultipleAtLeast(r, p, v) == r % p = 0 /\ r >= v /\ r - v < p

----------------------------------------------------------------------------
(* Properties of the camera's gestures and failures, checked under Spec.   *)

\* C21: with no call in between and no truncation by zoom_range,
\* zoom(m1, s) followed by zoom(m2, s) leaves the zoom_factor.target and
\* position.target that the single zoom(m1 * m2, s) leaves, whatever the
\* smoothed current values are.
C21_ZoomsCompose ==
    (/\ last.op = "zoom" /\ last.prev.op = "zoom" /\ ~panicked
     /\ last.vec = last.prev.vec
     /\ InRange(RMul(ZT(last.prev.pre), last.prev.mult), camera.zoom_range)
     /\ InRange(RMul(ZT(last.pre), last.mult), camera.zoom_range)) =>
        LET single == Camera_zoom(last.prev.pre, RMul(last.prev.mult, last.mult), last.vec)
        IN  /\ ZT(camera) = ZT(single)
            /\ PosT(camera) = PosT(single)
            /\ ZT(camera) = RMul(ZT(last.prev.pre), RMul(last.prev.mult, last.mult))

\* Two untruncated zooms about the same point, by multipliers other than 1,
\* of a camera whose smoothed position lagged behind its target.
C21_Witness ==
    /\ last.op = "zoom" /\ last.prev.op = "zoom" /\ ~panicked
    /\ last.vec = last.prev.vec
    /\ InRange(RMul(ZT(last.prev.pre), last.prev.mult), camera.zoom_range)
    /\ InRange(RMul(ZT(last.pre), last.mult), camera.zoom_range)
    /\ last.mult # last.prev.mult
    /\ PosC(last.prev.pre) # PosT(last.prev.pre)
    /\ PosT(camera) # PosT(last.pre) /\ PosT(last.pre) # PosT(last.prev.pre)

\* C22: Camera::new with an empty zoom_range (min > max) panics instead of
\* returning a Camera.  (Violated: Camera::new checks nothing; the panic
\* comes from f32::clamp in the first Camera::zoom.)
C22_EmptyRangeRejectedAtNew ==
    (last.op = "new" /\ RLt(camera.zoom_range[2], camera.zoom_range[1])) => panicked

\* C24: a camera constructed with a non-empty positive zoom_range and a
\* non-negative position_range never reaches a panic, whatever translate,
\* zoom, clamp_me_daddy and update(dt >= 0) calls are made.
C24_PanicFree ==
    (/\ NonEmptyPositive(camera.zoom_range)
     /\ \A i \in 1..2 : RLe(Zero, camera.position_range[i])) => ~panicked

\* Three calls made, the last a zoom truncated by a zoom_range that does
\* not hold the initial zoom, and no panic.
C24_Witness ==
    /\ NonEmptyPositive(camera.zoom_range) /\ ~InRange(One, camera.zoom_range)
    /\ steps = MaxSteps /\ ~panicked
    /\ last.op = "zoom"
    /\ ~InRange(RMul(ZT(last.pre), last.mult), camera.zoom_range)

\* C26: for a camera whose zoom_range holds the initial zoom 1.0,
\* zoom_factor.current() lies within zoom_range in every state.
C26_SmoothedZoomInRange ==
    (NonEmptyPositive(camera.zoom_range) /\ InRange(One, camera.zoom_range)) =>
        InRange(ZC(camera), camera.zoom_range)

\* An update with dt > 0 that moved the smoothed zoom toward a target
\* sitting on the lower bound after a truncated zoom.
C26_Witness ==
    /\ InRange(One, camera.zoom_range)
    /\ last.op = "update" /\ RLt(Zero, last.dt)
    /\ ZT(camera) = camera.zoom_range[1]
    /\ ZC(camera) # ZC(last.pre)
    /\ RLt(ZT(camera), ZC(camera))

----------------------------------------------------------------------------
(* Failures of the interpolators, checked under InterpolationSpec.         *)

\* C23: update(dt) with dt < 0 is rejected and leaves current unchanged.
\* (Violated: update computes with the negative dt and moves current.)
C23_NegativeDtRejected ==
    (vlast.op = "update(dt < 0)" /\ RLt(vlast.dt, Zero)) => var.current = vlast.pre.current

----------------------------------------------------------------------------
(* Properties of the Zoomer's event handlers, checked under ZoomerSpec.    *)

\* The pixel of the last event as a vector, and its NDC point as the handler
\* computed it.
ZPixel(pixel) == vec2(I(pixel[1]), I(pixel[2]))

ZScreen(pixel) == Zoomer_pixel_to_screen_space(zlast.pre, ZPixel(pixel))

\* Component i of position.target lies outside the bound clamp_me_daddy
\* would enforce.
OutsideBound(c, i) ==
    LET b == Bound(c, i, ZC(c))
    IN  RLt(b, PosT(c)[i]) \/ RLt(PosT(c)[i], RNeg(b))

\* C25: clamp_me_daddy runs on on_left_mouse_up and on no other event: a move
\* with the left button down leaves the camera translated by the NDC delta
\* from last_mouse_screen_pos and nothing else, a wheel event leaves it zoomed
\* or untouched, an update leaves it updated, every other event leaves it as
\* it was; so position.target may lie outside the bound between releases.
C25_ClampOnlyOnRelease ==
    LET pre == zlast.pre.camera
        a   == zlast.args
    IN  CASE zlast.op = "on_left_mouse_up" -> zoomer.camera = Camera_clamp_me_daddy(pre)
          [] zlast.op = "on_mouse_move" ->
                zoomer.camera =
                    IF a[2] THEN Camera_translate(pre,
                                     VSub(ZScreen(a[1]), zlast.pre.last_mouse_screen_pos))
                    ELSE pre
          [] zlast.op = "on_mouse_wheel" ->
                zoomer.camera \in
                    { pre, Camera_zoom(pre, RAdd(One, Rat(a[1], 1200)), ZScreen(a[2])) }
          [] zlast.op = "update" -> zoomer.camera = Camera_update(pre, a[1])
          [] zlast.op \in {"on_resize", "on_left_mouse_down", "on_key_down", "on_hotkey"} ->
                zoomer.camera = pre
          [] OTHER -> TRUE

\* C25 witness: after a move with the left button down, which found the target
\* inside the bound, the target lies outside it.
C25_Witness ==
    /\ zlast.op = "on_mouse_move" /\ zlast.args[2]
    /\ \A i \in 1..2 : ~OutsideBound(zlast.pre.camera, i)
    /\ \E i \in 1..2 : OutsideBound(zoomer.camera, i)

\* C27: no handler panics with "already taken": once init has run, the
\* screenshot at hand has had its pixel bytes taken, so that taking them again
\* would panic, and every event makes as many uploads as captures, each
\* upload taking the bytes of the screenshot captured in the same event.
C27_PixelBytesTakenOnce ==
    /\ ~zoomer.panicked
    /\ zlast.op # "new" =>
          /\ Screenshot_take_pixel_bytes_panics(zoomer.screenshot)
          /\ ~Screenshot_take_pixel_bytes_panics(Screenshot_new(DesktopSize))
          /\ zoomer.uploads - zlast.pre.uploads = zoomer.captures - zlast.pre.captures
          /\ zoomer.uploads = zoomer.captures

\* C27 witness: on_hotkey has reopened the window, uploading a second
\* screenshot.
C27_Witness ==
    /\ zlast.op = "on_hotkey"
    /\ ~zlast.pre.is_open
    /\ zoomer.uploads = 2

\* C28: is_open is true after init, turns false only on an Escape key-down and
\* true again only on on_hotkey; on_hotkey on an open window changes nothing;
\* screenshots are captured and uploaded once at init and once per
\* closed-to-open transition, and never by an event that finds the window open.
C28_OpenCloseCycle ==
    LET pre == zlast.pre
    IN  /\ zlast.op = "init" => zoomer.is_open
        /\ zlast.op \notin {"new", "init"} =>
              /\ (pre.is_open /\ ~zoomer.is_open) =>
                    (zlast.op = "on_key_down" /\ zlast.args[1] = "VK_ESCAPE")
              /\ (~pre.is_open /\ zoomer.is_open) => zlast.op = "on_hotkey"
              /\ (zlast.op = "on_hotkey" /\ pre.is_open) => zoomer = pre
              /\ pre.is_open =>
                    (zoomer.captures = pre.captures /\ zoomer.uploads = pre.uploads)
        /\ zlast.op # "new" =>
              /\ zoomer.captures = 1 + zlast.opens
              /\ zoomer.uploads = 1 + zlast.opens

\* C28 witness: on_hotkey arrives at a window that was closed and reopened.
C28_Witness ==
    /\ zlast.op = "on_hotkey"
    /\ zlast.pre.is_open
    /\ zlast.opens = 1

\* The radius the highlighter is heading for, and the radius it shows.
RadT(z) == InterpolatedScalar_target(z.highlighter.radius)

RadC(z) == InterpolatedScalar_current(z.highlighter.radius)

\* C29: on_mouse_wheel(delta, x, y, ctrl) with ctrl held and the highlighter
\* enabled changes only the highlighter's radius target, to
\* max(1, radius * (1 + 2 * delta / 1200)) with radius the radius shown, and
\* leaves the camera as it was; in every other case the camera is the result
\* of zoom(1 + delta / 1200, NDC of (x, y)) and the highlighter is as it was.
C29_WheelRouting ==
    zlast.op = "on_mouse_wheel" =>
        LET pre   == zlast.pre
            delta == Rat(zlast.args[1], 1200)
            ctrl  == zlast.args[3]
            want  == RMul(RadC(pre), RAdd(One, RMul(I(2), delta)))
        IN  IF ctrl /\ pre.highlighter.is_enabled
            THEN /\ RadT(zoomer) = (IF RLt(want, One) THEN One ELSE want)
                 /\ zoomer = [pre EXCEPT !.highlighter.radius.target =
                                             zoomer.highlighter.radius.target]
            ELSE /\ zoomer.camera =
                       Camera_zoom(pre.camera, RAdd(One, delta), ZScreen(zlast.args[2]))
                 /\ zoomer = [pre EXCEPT !.camera = zoomer.camera]

\* C29 witness: a ctrl-wheel event on an enabled highlighter whose radius
\* shown differs from the radius it is heading for.
C29_Witness ==
    /\ zlast.op = "on_mouse_wheel"
    /\ zlast.args[3]
    /\ zlast.pre.highlighter.is_enabled
    /\ RadT(zlast.pre) # RadC(zlast.pre)
    /\ RadT(zoomer) # RadT(zlast.pre)

\* C30: after on_left_mouse_down at pixel a followed only by on_mouse_move
\* events with the left button down, the last of them at pixel b,
\* position.target has changed since the press by exactly
\* pixel_to_screen_space(b) - pixel_to_screen_space(a); on_mouse_move with the
\* left button up leaves the camera as it was.
C30_DragAccumulates ==
    zlast.op = "on_mouse_move" =>
        IF zlast.args[2]
        THEN zlast.drag.active =>
                PosT(zoomer.camera) =
                    VAdd(zlast.drag.target, VSub(ZScreen(zlast.args[1]), zlast.drag.from))
        ELSE zoomer.camera = zlast.pre.camera

\* C30 witness: the second move of a drag, whose first move went to another
\* point than the press, leaves the target away from where the press found it.
C30_Witness ==
    /\ zlast.op = "on_mouse_move" /\ zlast.args[2]
    /\ zlast.drag.active
    /\ zlast.pre.last_mouse_screen_pos # zlast.drag.from
    /\ zoomer.last_mouse_screen_pos # zlast.pre.last_mouse_screen_pos
    /\ PosT(zoomer.camera) # zlast.drag.target

====
